---- MODULE Spec2Model ----
(***************************************************************************)
(* Model of ttomasicc/analysis-fp-oop: the statistics script stats.py      *)
(* (Shapiro-Wilk report, Friedman report with Nemenyi post-hoc, and the    *)
(* driver that runs them over four named-series collections) and the       *)
(* box-plot function of visualizer.py.                                     *)
(*                                                                         *)
(* Strings that the code slices or sorts (the values of the 'script'       *)
(* column) are sequences of one-character strings; labels that are only    *)
(* printed (the keys of the collections) are plain strings.                *)
(* Floating-point p-values are records [nan, milli]: milli is the value in *)
(* thousandths, nan marks the IEEE not-a-number.                           *)
(***************************************************************************)
EXTENDS Integers, Sequences, FiniteSets, TLC

VARIABLES
    file,                            \* the CSV file named by sys.argv[1]
    argc,                            \* len(sys.argv)
    df,                              \* the loaded table (stats.py:38, visualizer.py:32)
    stage,                           \* position of the stats driver
    script_times,                    \* stats.py:40
    script_memory_usages,            \* stats.py:47
    script_optimized_times,          \* stats.py:69
    script_optimized_memory_usages,  \* stats.py:75
    out,                             \* the console: the lines printed so far
    fpc,                             \* position inside calculate_shapiro / calculate_friedman
    fn,                              \* the report function entered last
    scripts,                         \* the argument of the running call
    idx,                             \* position of the for loop of calculate_shapiro
    script_values,                   \* stats.py:18
    pvalue,                          \* stats.py:12, stats.py:19
    friedman_input,                  \* the samples handed to stats.friedmanchisquare
    nemenyi_input,                   \* the array handed to sp.posthoc_nemenyi_friedman
    vstage,                          \* position of the create_box_plots call
    plot_args,                       \* the arguments of the create_box_plots call
    figures                          \* the figures built by create_box_plots

vars == <<file, argc, df, stage, script_times, script_memory_usages,
          script_optimized_times, script_optimized_memory_usages, out,
          fpc, fn, scripts, idx, script_values, pvalue, friedman_input,
          nemenyi_input, vstage, plot_args, figures>>

statsVars == <<stage, script_times, script_memory_usages,
               script_optimized_times, script_optimized_memory_usages>>
callVars == <<fpc, fn, scripts, idx, script_values, pvalue, friedman_input, nemenyi_input>>
plotVars == <<vstage, plot_args, figures>>

(***************************************************************************)
(* Bounds of the model.                                                    *)
(***************************************************************************)
\* most rows of an input table
MaxRows == 4
\* longest series of a mapping handed directly to a report function
MaxLen == 3

(***************************************************************************)
(* Values of the 'script' column.                                          *)
(***************************************************************************)
FP_JS_js == <<"F", "P", "_", "J", "S", ".", "j", "s">>
FP_TS_js == <<"F", "P", "_", "T", "S", ".", "j", "s">>
OOP_JS_js == <<"O", "O", "P", "_", "J", "S", ".", "j", "s">>
OOP_TS_js == <<"O", "O", "P", "_", "T", "S", ".", "j", "s">>
OOP_STRING_JS_js ==
    <<"O", "O", "P", "_", "S", "T", "R", "I", "N", "G", "_", "J", "S", ".", "j", "s">>
\* an identifier that none of the literals of stats.py selects
OTHER_js == <<"G", "O", ".", "j", "s">>

ScriptIds == {FP_JS_js, FP_TS_js, OOP_JS_js, OOP_TS_js, OOP_STRING_JS_js, OTHER_js}

\* code points of the characters above (Python compares strings by code point)
CharCode(c) ==
    CASE c = "." -> 46 [] c = "F" -> 70 [] c = "G" -> 71 [] c = "I" -> 73
      [] c = "J" -> 74 [] c = "N" -> 78 [] c = "O" -> 79 [] c = "P" -> 80
      [] c = "R" -> 82 [] c = "S" -> 83 [] c = "T" -> 84 [] c = "_" -> 95
      [] c = "j" -> 106 [] c = "s" -> 115

\* a < b for Python strings
StrLess(a, b) ==
    \E i \in 1..Len(b) :
        /\ \A j \in 1..(i - 1) : j <= Len(a) /\ a[j] = b[j]
        /\ (i > Len(a) \/ CharCode(a[i]) < CharCode(b[i]))

(***************************************************************************)
(* Input tables.  Row i of a table measures time_taken = i and             *)
(* memory_usage = (10 + i) MiB, so that every value of a table names the   *)
(* row and the column it came from.                                        *)
(***************************************************************************)
MiB == 1024 * 1024

AllColumns == {"script", "time_taken", "memory_usage"}

ColumnSets == {AllColumns, AllColumns \ {"memory_usage"}, AllColumns \ {"script"}}

RowsOf(ids) ==
    [i \in 1..Len(ids) |->
        [script |-> ids[i], time_taken |-> i, memory_usage |-> (10 + i) * MiB]]

IdSeqs == UNION {[1..n -> ScriptIds] : n \in 0..MaxRows}

Tables == {[columns |-> c, rows |-> RowsOf(ids)] : c \in ColumnSets, ids \in IdSeqs}

\* what sys.argv[1] may name: a readable table, or a file pd.read_csv rejects
Files ==
    {[readable |-> TRUE, table |-> t] : t \in Tables}
        \cup {[readable |-> FALSE, table |-> [columns |-> {}, rows |-> <<>>]]}

NoTable == [columns |-> {}, rows |-> <<>>]

(***************************************************************************)
(* Floats.                                                                 *)
(***************************************************************************)
Float(m) == [nan |-> FALSE, milli |-> m]
NaN == [nan |-> TRUE, milli |-> 0]

\* the p-values a test may return, around the 0.05 level of the code
PVals == {Float(49), Float(50), Float(51)}

\* x > m and x < m of IEEE floats: both are False on a nan
FloatGt(x, m) == ~x.nan /\ x.milli > m
FloatLt(x, m) == ~x.nan /\ x.milli < m

\* the literal 0.05 of stats.py:13 and of stats.py:22, in thousandths
ShapiroLevel == 50
FriedmanLevel == 50

(***************************************************************************)
(* Mappings (dict): sequences of <<key, value>> in insertion order.        *)
(***************************************************************************)
keys(d) == [i \in 1..Len(d) |-> d[i][1]]
values(d) == [i \in 1..Len(d) |-> d[i][2]]
items(d) == d

NoMapping == <<>>

(***************************************************************************)
(* Group Extractor: df[df['script'] == ident][col].tolist()                *)
(***************************************************************************)
\* the comparison negated: every row but those of ident
ScriptMaskNegated(tab, ident) ==
    [i \in 1..Len(tab.rows) |-> tab.rows[i].script # ident]

\* df['script'] == ident: one boolean per row
ScriptMask(tab, ident) == [i \in 1..Len(tab.rows) |-> tab.rows[i].script = ident]

RECURSIVE BoolIndex(_, _, _)
\* df[mask]: the rows whose mask is True, in table order (n: rows looked at)
BoolIndex(rows, mask, n) ==
    IF n = 0 THEN <<>>
    ELSE LET before == BoolIndex(rows, mask, n - 1)
         IN  IF mask[n] THEN Append(before, rows[n]) ELSE before

\* [col].tolist()
ColumnList(rows, col) == [i \in 1..Len(rows) |-> rows[i][col]]

Series(tab, ident, col) ==
    ColumnList(BoolIndex(tab.rows, ScriptMask(tab, ident), Len(tab.rows)), col)

\* df['script'] and df[...][col] raise KeyError on a missing column
CanSelect(tab, col) == "script" \in tab.columns /\ col \in tab.columns

InitialCollection(tab, col) ==
    << <<"FP_JS", Series(tab, FP_JS_js, col)>>,
       <<"FP_TS", Series(tab, FP_TS_js, col)>>,
       <<"OOP_JS", Series(tab, OOP_JS_js, col)>>,
       <<"OOP_TS", Series(tab, OOP_TS_js, col)>> >>

OptimizedCollection(tab, col) ==
    << <<"FP_JS", Series(tab, FP_JS_js, col)>>,
       <<"OOP_JS", Series(tab, OOP_JS_js, col)>>,
       <<"OOP_STRING_JS", Series(tab, OOP_STRING_JS_js, col)>> >>

(***************************************************************************)
(* The library calls, by their contract at the call site.                  *)
(***************************************************************************)
Raised == [raised |-> TRUE, p |-> NaN]
Returned(p) == [raised |-> FALSE, p |-> p]

\* stats.shapiro(values): needs three values; below that the scipy builds
\* differ (ValueError, or a nan p-value with a warning)
shapiro(vals) ==
    IF Len(vals) < 3 THEN {Raised, Returned(NaN)}
    ELSE {Returned(p) : p \in PVals}

\* stats.friedmanchisquare(*samples): ValueError on fewer than three samples
\* and on samples of unequal length; with no trial at all the statistic is
\* 0/0 (ZeroDivisionError or nan); a tie in every trial gives nan
friedmanchisquare(samples) ==
    IF Len(samples) < 3 THEN {Raised}
    ELSE IF \E i \in 2..Len(samples) : Len(samples[i]) # Len(samples[1]) THEN {Raised}
    ELSE IF Len(samples[1]) = 0 THEN {Raised, Returned(NaN)}
    ELSE {Returned(p) : p \in PVals \cup {NaN}}

\* np.array(script_values).T of equal-length series: rows = trials, columns = groups
Transposed(vs) ==
    LET k == Len(vs)
        n == IF k = 0 THEN 0 ELSE Len(vs[1])
    IN  [shape |-> <<n, k>>,
         cells |-> [r \in 1..n |-> [c \in 1..k |-> vs[c][r]]]]

NoArray == [shape |-> <<0, 0>>, cells |-> <<>>]

\* sp.posthoc_nemenyi_friedman(a): a k x k frame indexed 0..k-1 by column of a;
\* an array with no row is degenerate input
posthoc_nemenyi_friedman(a) ==
    IF a.shape[1] = 0 THEN {"raised", "frame"} ELSE {"frame"}

(***************************************************************************)
(* Console lines.                                                          *)
(***************************************************************************)
Text(s) == [kind |-> "text", text |-> s]

ShapiroHeaderLines ==
    << Text("Skripta    Shapiro-Wilk p vrijednost      Normalna distribucija"),
       Text("-------    -------------------------      ---------------------") >>

ShapiroRowLine(script, p, verdict) ==
    [kind |-> "shapiro_row", script |-> script, pvalue |-> p, isNormal |-> verdict]

FriedmanHeaderLines ==
    << Text("Friedman p vrijednost          Postoji razlika u barem jednoj grupi"),
       Text("---------------------          ------------------------------------") >>

FriedmanRowLine(p, verdict) ==
    [kind |-> "friedman_row", pvalue |-> p, verdict |-> verdict]

LegendLine(entries) == [kind |-> "legend", entries |-> entries]

FrameLine(k) == [kind |-> "frame", columns |-> [i \in 1..k |-> i - 1]]

(***************************************************************************)
(* calculate_shapiro                                                       *)
(***************************************************************************)
\* the comparison of stats.py:13 made inclusive
isNormalInclusive(p) == IF ~p.nan /\ p.milli >= ShapiroLevel THEN "Da" ELSE "Ne"

\* stats.py:13
isNormal(p) == IF FloatGt(p, ShapiroLevel) THEN "Da" ELSE "Ne"

\* the pairs visited last to first
LoopItemsReversed(d) == [i \in 1..Len(d) |-> d[Len(d) + 1 - i]]

\* stats.py:11: the (script, values) pairs the loop visits, in order
LoopItems(d) == items(d)

\* stats.py:9-10
ShapiroHeader ==
    /\ fpc = "shapiro_header"
    /\ out' = out \o ShapiroHeaderLines
    /\ idx' = 1
    /\ fpc' = "shapiro_loop"
    /\ UNCHANGED <<file, argc, df, statsVars, fn, scripts, script_values, pvalue,
                   friedman_input, nemenyi_input, plotVars>>

\* stats.py:11-14, one iteration
ShapiroRow ==
    /\ fpc = "shapiro_loop"
    /\ idx <= Len(LoopItems(scripts))
    /\ LET script == LoopItems(scripts)[idx][1]
           vals == LoopItems(scripts)[idx][2]
       IN  \E r \in shapiro(vals) :
              IF r.raised
              THEN /\ fpc' = "raised"
                   /\ UNCHANGED <<out, idx, pvalue>>
              ELSE /\ pvalue' = r.p
                   /\ out' = Append(out, ShapiroRowLine(script, r.p, isNormal(r.p)))
                   /\ idx' = idx + 1
                   /\ fpc' = "shapiro_loop"
    /\ UNCHANGED <<file, argc, df, statsVars, fn, scripts, script_values,
                   friedman_input, nemenyi_input, plotVars>>

\* stats.py:11, the loop is exhausted
ShapiroReturn ==
    /\ fpc = "shapiro_loop"
    /\ idx > Len(LoopItems(scripts))
    /\ fpc' = "returned"
    /\ UNCHANGED <<file, argc, df, statsVars, out, fn, scripts, idx, script_values, pvalue,
                   friedman_input, nemenyi_input, plotVars>>

(***************************************************************************)
(* calculate_friedman                                                      *)
(***************************************************************************)
\* the series cut to the length of the shortest one
ScriptValuesTruncated(d) ==
    LET shortest == CHOOSE n \in {Len(d[i][2]) : i \in 1..Len(d)} :
                        \A i \in 1..Len(d) : n <= Len(d[i][2])
    IN  [i \in 1..Len(d) |-> SubSeq(d[i][2], 1, IF Len(d) = 0 THEN 0 ELSE shortest)]

\* stats.py:18
ScriptValues(d) == values(d)

\* the call with its error caught and a p-value of 1.0 put in its place
FriedmanCallDefaulting(samples) ==
    {IF r.raised THEN Returned(Float(1000)) ELSE r : r \in friedmanchisquare(samples)}

\* stats.py:19: the call, whose error is not caught
FriedmanCall(samples) == friedmanchisquare(samples)

\* the comparison of stats.py:22 made inclusive
SignificantInclusive(p) == IF ~p.nan /\ p.milli <= FriedmanLevel THEN "Da" ELSE "Ne"

\* stats.py:22
Significant(p) == IF FloatLt(p, FriedmanLevel) THEN "Da" ELSE "Ne"

\* the legend numbered from 1
LegendEntriesFromOne(d) == [i \in 1..Len(keys(d)) |-> <<i, keys(d)[i]>>]

\* stats.py:27-28
LegendEntries(d) == [i \in 1..Len(keys(d)) |-> <<i - 1, keys(d)[i]>>]

\* stats.py:30, the argument
NemenyiArray(vs) == Transposed(vs)

\* stats.py:18-19
FriedmanTest ==
    /\ fpc = "friedman_test"
    /\ script_values' = ScriptValues(scripts)
    /\ friedman_input' = script_values'
    /\ \E r \in FriedmanCall(script_values') :
          IF r.raised
          THEN fpc' = "raised" /\ UNCHANGED pvalue
          ELSE fpc' = "friedman_report" /\ pvalue' = r.p
    /\ UNCHANGED <<file, argc, df, statsVars, out, fn, scripts, idx, nemenyi_input, plotVars>>

\* stats.py:20-23
FriedmanReport ==
    /\ fpc = "friedman_report"
    /\ out' = out \o FriedmanHeaderLines
                  \o <<FriedmanRowLine(pvalue, Significant(pvalue)), Text("")>>
    /\ fpc' = "friedman_legend"
    /\ UNCHANGED <<file, argc, df, statsVars, fn, scripts, idx, script_values, pvalue,
                   friedman_input, nemenyi_input, plotVars>>

\* stats.py:26-29
FriedmanLegend ==
    /\ fpc = "friedman_legend"
    /\ out' = out \o <<Text("Friedman post hoc"), LegendLine(LegendEntries(scripts))>>
    /\ fpc' = "friedman_posthoc"
    /\ UNCHANGED <<file, argc, df, statsVars, fn, scripts, idx, script_values, pvalue,
                   friedman_input, nemenyi_input, plotVars>>

\* stats.py:30
FriedmanPostHoc ==
    /\ fpc = "friedman_posthoc"
    /\ nemenyi_input' = NemenyiArray(script_values)
    /\ \E r \in posthoc_nemenyi_friedman(nemenyi_input') :
          IF r = "raised"
          THEN fpc' = "raised" /\ UNCHANGED out
          ELSE /\ fpc' = "returned"
               /\ out' = Append(out, FrameLine(nemenyi_input'.shape[2]))
    /\ UNCHANGED <<file, argc, df, statsVars, fn, scripts, idx, script_values, pvalue,
                   friedman_input, plotVars>>

CallStep ==
    \/ ShapiroHeader
    \/ ShapiroRow
    \/ ShapiroReturn
    \/ FriedmanTest
    \/ FriedmanReport
    \/ FriedmanLegend
    \/ FriedmanPostHoc

(***************************************************************************)
(* The driver of stats.py.                                                 *)
(***************************************************************************)
StageOrder ==
    << "load", "extract_initial",
       "initial_time_shapiro", "initial_time_friedman",
       "initial_memory_shapiro", "initial_memory_friedman",
       "extract_optimized",
       "optimized_time_shapiro", "optimized_time_friedman",
       "optimized_memory_shapiro", "optimized_memory_friedman",
       "done" >>

StageIndex(s) == CHOOSE i \in 1..Len(StageOrder) : StageOrder[i] = s

\* the statement after the one at stage s
NextStage(s) == StageOrder[StageIndex(s) + 1]

\* an exception swallowed: the run goes on with the next statement
OnRaiseContinue(s) == StageOrder[StageIndex(s) + 1]

\* where an uncaught exception at stage s takes the run
OnRaise(s) == "failed"

ShapiroStages ==
    {"initial_time_shapiro", "initial_memory_shapiro",
     "optimized_time_shapiro", "optimized_memory_shapiro"}

FriedmanStages ==
    {"initial_time_friedman", "initial_memory_friedman",
     "optimized_time_friedman", "optimized_memory_friedman"}

\* the collection each call is given (stats.py:58-67, 86-95)
Argument(s) ==
    CASE s \in {"initial_time_shapiro", "initial_time_friedman"} -> script_times
      [] s \in {"initial_memory_shapiro", "initial_memory_friedman"} -> script_memory_usages
      [] s \in {"optimized_time_shapiro", "optimized_time_friedman"} -> script_optimized_times
      [] s \in {"optimized_memory_shapiro", "optimized_memory_friedman"} ->
            script_optimized_memory_usages

\* the lines printed before each Shapiro report (stats.py:54-57, 62-64, 81-85, 90-92)
Banner(s) ==
    CASE s = "initial_time_shapiro" ->
            <<Text("-- INICIJALNO --"), Text(""), Text("Vremenska slozenost"), Text("---")>>
      [] s = "optimized_time_shapiro" ->
            <<Text(""), Text("-- OPTIMIZIRANO --"), Text(""),
              Text("Vremenska slozenost"), Text("---")>>
      [] s \in {"initial_memory_shapiro", "optimized_memory_shapiro"} ->
            <<Text(""), Text("--- --- --- --- --- --- ---"), Text(""),
              Text("Prostorna slozenost"), Text("---")>>

\* stats.py:34-36
Usage ==
    /\ stage = "load"
    /\ argc < 2
    /\ out' = Append(out, Text("Usage: python3 stats.py csv_file_path"))
    /\ stage' = "exit"
    /\ UNCHANGED <<file, argc, df, script_times, script_memory_usages,
                   script_optimized_times, script_optimized_memory_usages,
                   callVars, plotVars>>

\* stats.py:38
Load ==
    /\ stage = "load"
    /\ argc >= 2
    /\ IF file.readable
       THEN df' = file.table /\ stage' = NextStage(stage)
       ELSE df' = df /\ stage' = OnRaise(stage)
    /\ UNCHANGED <<file, argc, script_times, script_memory_usages,
                   script_optimized_times, script_optimized_memory_usages,
                   out, callVars, plotVars>>

\* stats.py:40-52
ExtractInitial ==
    /\ stage = "extract_initial"
    /\ IF CanSelect(df, "time_taken")
       THEN /\ script_times' = InitialCollection(df, "time_taken")
            /\ IF CanSelect(df, "memory_usage")
               THEN /\ script_memory_usages' = InitialCollection(df, "memory_usage")
                    /\ stage' = NextStage(stage)
               ELSE /\ UNCHANGED script_memory_usages
                    /\ stage' = OnRaise(stage)
       ELSE /\ UNCHANGED <<script_times, script_memory_usages>>
            /\ stage' = OnRaise(stage)
    /\ UNCHANGED <<file, argc, df, script_optimized_times,
                   script_optimized_memory_usages, out, callVars, plotVars>>

\* stats.py:69-79
ExtractOptimized ==
    /\ stage = "extract_optimized"
    /\ IF CanSelect(df, "time_taken")
       THEN /\ script_optimized_times' = OptimizedCollection(df, "time_taken")
            /\ IF CanSelect(df, "memory_usage")
               THEN /\ script_optimized_memory_usages' =
                          OptimizedCollection(df, "memory_usage")
                    /\ stage' = NextStage(stage)
               ELSE /\ UNCHANGED script_optimized_memory_usages
                    /\ stage' = OnRaise(stage)
       ELSE /\ UNCHANGED <<script_optimized_times, script_optimized_memory_usages>>
            /\ stage' = OnRaise(stage)
    /\ UNCHANGED <<file, argc, df, script_times, script_memory_usages,
                   out, callVars, plotVars>>

\* stats.py:54-58, 62-65, 81-86, 90-93: the banner, then calculate_shapiro is entered
CallShapiro ==
    /\ stage \in ShapiroStages
    /\ fpc = "idle"
    /\ out' = out \o Banner(stage)
    /\ fn' = "calculate_shapiro"
    /\ scripts' = Argument(stage)
    /\ fpc' = "shapiro_header"
    /\ UNCHANGED <<file, argc, df, statsVars, idx, script_values, pvalue,
                   friedman_input, nemenyi_input, plotVars>>

\* stats.py:59-60, 66-67, 87-88, 94-95: print(), then calculate_friedman is entered
CallFriedman ==
    /\ stage \in FriedmanStages
    /\ fpc = "idle"
    /\ out' = Append(out, Text(""))
    /\ fn' = "calculate_friedman"
    /\ scripts' = Argument(stage)
    /\ fpc' = "friedman_test"
    /\ UNCHANGED <<file, argc, df, statsVars, idx, script_values, pvalue,
                   friedman_input, nemenyi_input, plotVars>>

\* the call returns to the driver
Return ==
    /\ stage \in ShapiroStages \cup FriedmanStages
    /\ fpc = "returned"
    /\ fpc' = "idle"
    /\ stage' = NextStage(stage)
    /\ UNCHANGED <<file, argc, df, script_times, script_memory_usages,
                   script_optimized_times, script_optimized_memory_usages, out,
                   fn, scripts, idx, script_values, pvalue, friedman_input,
                   nemenyi_input, plotVars>>

\* the exception of a call leaves the driver, which has no handler
Propagate ==
    /\ stage \in ShapiroStages \cup FriedmanStages
    /\ fpc = "raised"
    /\ stage' = OnRaise(stage)
    /\ fpc' = IF stage' = "failed" THEN "raised" ELSE "idle"
    /\ UNCHANGED <<file, argc, df, script_times, script_memory_usages,
                   script_optimized_times, script_optimized_memory_usages, out,
                   fn, scripts, idx, script_values, pvalue, friedman_input,
                   nemenyi_input, plotVars>>

NoCall ==
    /\ fn = "none"
    /\ scripts = NoMapping
    /\ idx = 0
    /\ script_values = <<>>
    /\ pvalue = NaN
    /\ friedman_input = <<>>
    /\ nemenyi_input = NoArray

NoCollections ==
    /\ script_times = NoMapping
    /\ script_memory_usages = NoMapping
    /\ script_optimized_times = NoMapping
    /\ script_optimized_memory_usages = NoMapping

NoArgs == [attr |-> "", title |-> "", ylabel |-> "", excluded |-> <<>>]

NoPlot == vstage = "none" /\ plot_args = NoArgs /\ figures = <<>>

Init ==
    /\ file \in Files
    /\ argc \in {1, 2}
    /\ df = NoTable
    /\ stage = "load"
    /\ NoCollections
    /\ out = <<>>
    /\ fpc = "idle"
    /\ NoCall
    /\ NoPlot

Next ==
    \/ Usage
    \/ Load
    \/ ExtractInitial
    \/ ExtractOptimized
    \/ CallShapiro
    \/ CallFriedman
    \/ Return
    \/ Propagate
    \/ CallStep

Spec == Init /\ [][Next]_vars

(***************************************************************************)
(* A report function called on its own, with any mapping of the bounds.    *)
(***************************************************************************)
CallLabels == {"FP_JS", "OOP_JS", "OOP_STRING_JS"}

\* the series n values long that counts up from s
Ramp(n, s) == [i \in 1..n |-> s + i - 1]

CallSeries == {Ramp(n, s) : n \in 0..MaxLen, s \in {1, 2}}

\* dict keys are distinct
Mappings ==
    {d \in UNION {[1..k -> CallLabels \X CallSeries] : k \in 0..Cardinality(CallLabels)} :
        \A i, j \in 1..Len(d) : i # j => d[i][1] # d[j][1]}

InitCall ==
    /\ file = [readable |-> FALSE, table |-> NoTable]
    /\ argc = 2
    /\ df = NoTable
    /\ stage = "call"
    /\ NoCollections
    /\ out = <<>>
    /\ \/ fn = "calculate_shapiro" /\ fpc = "shapiro_header"
       \/ fn = "calculate_friedman" /\ fpc = "friedman_test"
    /\ scripts \in Mappings
    /\ idx = 0
    /\ script_values = <<>>
    /\ pvalue = NaN
    /\ friedman_input = <<>>
    /\ nemenyi_input = NoArray
    /\ NoPlot

NextCall == CallStep

SpecCall == InitCall /\ [][NextCall]_vars

(***************************************************************************)
(* visualizer.py: create_box_plots over the table the driver loaded.       *)
(***************************************************************************)
\* visualizer.py:32-34: the table with memory_usage converted from B to MB
VisualizerTable(t) ==
    [columns |-> t.columns,
     rows |-> [i \in 1..Len(t.rows) |->
                 [t.rows[i] EXCEPT !.memory_usage = t.rows[i].memory_usage \div MiB]]]

RECURSIVE Sorted(_)
\* the names of S in ascending order
Sorted(S) ==
    IF S = {} THEN <<>>
    ELSE LET least == CHOOSE x \in S : \A y \in S \ {x} : StrLess(x, y)
         IN  <<least>> \o Sorted(S \ {least})

\* the distinct values of the 'script' column
ScriptValuesOf(tab) == {tab.rows[i].script : i \in 1..Len(tab.rows)}

\* the positions of the rows of a group, ascending
RowsOfGroup(tab, name) == {i \in 1..Len(tab.rows) : tab.rows[i].script = name}

RECURSIVE Ascending(_)
Ascending(I) ==
    IF I = {} THEN <<>>
    ELSE LET least == CHOOSE x \in I : \A y \in I : x <= y
         IN  <<least>> \o Ascending(I \ {least})

\* iterating df.groupby('script'): (name, group) by ascending name, a group
\* being the rows of that name in table order
GroupBy(tab) ==
    LET names == Sorted(ScriptValuesOf(tab))
    IN  [g \in 1..Len(names) |->
           <<names[g],
             LET at == Ascending(RowsOfGroup(tab, names[g]))
             IN  [j \in 1..Len(at) |-> tab.rows[at[j]]]>>]

\* df.groupby('script').groups.items(): (name, row labels) by ascending name
GroupsItems(tab) ==
    LET names == Sorted(ScriptValuesOf(tab))
    IN  [g \in 1..Len(names) |-> <<names[g], Ascending(RowsOfGroup(tab, names[g]))>>]

\* name not in excluded
NotIn(name, excluded) == \A i \in 1..Len(excluded) : excluded[i] # name

RECURSIVE Comprehension(_, _, _)
\* [pairs[i] for i in 1..n if pairs[i][1] not in excluded]
Comprehension(pairs, excluded, n) ==
    IF n = 0 THEN <<>>
    ELSE LET before == Comprehension(pairs, excluded, n - 1)
         IN  IF NotIn(pairs[n][1], excluded) THEN Append(before, pairs[n]) ELSE before

\* name[:-3]
DropLast3(name) == SubSeq(name, 1, Len(name) - 3)

\* visualizer.py:11
BoxData(tab, attr, excluded) ==
    LET kept == Comprehension(GroupBy(tab), excluded, Len(GroupBy(tab)))
    IN  [i \in 1..Len(kept) |-> ColumnList(kept[i][2], attr)]

\* the labels of every group, excluded or not
XTickLabelsUnfiltered(tab, excluded) ==
    [i \in 1..Len(GroupsItems(tab)) |-> DropLast3(GroupsItems(tab)[i][1])]

\* visualizer.py:19
XTickLabels(tab, excluded) ==
    LET kept == Comprehension(GroupsItems(tab), excluded, Len(GroupsItems(tab)))
    IN  [i \in 1..Len(kept) |-> DropLast3(kept[i][1])]

\* the excluded lists of visualizer.py:41 and :53, the default, and two others
ExcludedLists ==
    { <<OOP_STRING_JS_js, FP_TS_js, FP_JS_js>>,
      <<FP_TS_js, OOP_TS_js>>,
      <<>>,
      <<OTHER_js, OOP_JS_js>>,
      <<FP_JS_js, FP_TS_js, OTHER_js, OOP_JS_js, OOP_STRING_JS_js, OOP_TS_js>> }

\* the attr / title / ylabel of the calls of visualizer.py:37-46 (the titles
\* written without their diacritics)
PlotTexts ==
    { [attr |-> "time_taken", title |-> "Vremena izvodenja testnih skripta",
       ylabel |-> "Vrijeme izvodenja (ms)"],
      [attr |-> "memory_usage", title |-> "Zauzeca radne memorije testnih skripta",
       ylabel |-> "Zauzece radne memorije (MB)"] }

\* visualizer.py:6-22
create_box_plots(attr, title, ylabel, excluded) ==
    /\ vstage = "call"
    /\ plot_args' = [attr |-> attr, title |-> title, ylabel |-> ylabel,
                     excluded |-> excluded]
    /\ IF "script" \in df.columns /\ (ScriptValuesOf(df) = {} \/ attr \in df.columns)
       THEN /\ figures' = Append(figures,
                   [data |-> BoxData(df, attr, excluded),
                    grid |-> TRUE,
                    xticklabels |-> XTickLabels(df, excluded),
                    xlabel |-> "Naziv skripte",
                    ylabel |-> ylabel,
                    title |-> title])
            /\ vstage' = "returned"
       ELSE /\ UNCHANGED figures
            /\ vstage' = "raised"
    /\ UNCHANGED <<file, argc, df, statsVars, out, callVars>>

CreateBoxPlots ==
    \E t \in PlotTexts, excluded \in ExcludedLists :
        create_box_plots(t.attr, t.title, t.ylabel, excluded)

\* the tables visualizer.py:34 accepts
PlotTables == {VisualizerTable(t) : t \in {u \in Tables : "memory_usage" \in u.columns}}

InitPlot ==
    /\ file = [readable |-> FALSE, table |-> NoTable]
    /\ argc = 2
    /\ df \in PlotTables
    /\ stage = "plot"
    /\ NoCollections
    /\ out = <<>>
    /\ fpc = "idle"
    /\ NoCall
    /\ vstage = "call"
    /\ plot_args = NoArgs
    /\ figures = <<>>

NextPlot == CreateBoxPlots

SpecPlot == InitPlot /\ [][NextPlot]_vars

(***************************************************************************)
(* Properties.                                                             *)
(***************************************************************************)
Lines(kind) == {i \in 1..Len(out) : out[i].kind = kind}

\* C1: every Shapiro-Wilk row printed says 'Da' exactly when its p-value is
\* strictly greater than 0.05 and 'Ne' otherwise; a p-value of exactly 0.05
\* prints 'Ne'.
C1_ShapiroVerdict ==
    \A i \in Lines("shapiro_row") :
        /\ out[i].isNormal \in {"Da", "Ne"}
        /\ out[i].isNormal = "Da" <=> (~out[i].pvalue.nan /\ out[i].pvalue.milli > 50)
        /\ out[i].pvalue = Float(50) => out[i].isNormal = "Ne"

\* a row at the boundary and a row above it have been printed
C1_Witness ==
    /\ fn = "calculate_shapiro"
    /\ \E i \in Lines("shapiro_row") : out[i].pvalue = Float(50) /\ out[i].isNormal = "Ne"
    /\ \E i \in Lines("shapiro_row") : out[i].pvalue = Float(51) /\ out[i].isNormal = "Da"

\* C2: the Friedman significance line says 'Da' exactly when the Friedman
\* p-value is strictly less than 0.05 and 'Ne' otherwise; a p-value of exactly
\* 0.05 prints 'Ne'.
C2_FriedmanVerdict ==
    \A i \in Lines("friedman_row") :
        /\ out[i].verdict \in {"Da", "Ne"}
        /\ out[i].verdict = "Da" <=> (~out[i].pvalue.nan /\ out[i].pvalue.milli < 50)
        /\ out[i].pvalue = Float(50) => out[i].verdict = "Ne"
        /\ out[i].pvalue = pvalue

\* the significance line of a p-value at the boundary has been printed
C2_Witness ==
    /\ fn = "calculate_friedman"
    /\ \E i \in Lines("friedman_row") : out[i].pvalue = Float(50) /\ out[i].verdict = "Ne"

\* C3: when calculate_shapiro returns (the test raised for no series), the
\* console holds the two header lines and then exactly one row per label of
\* the mapping, in the mapping's enumeration order.
C3_OneRowPerLabel ==
    (fn = "calculate_shapiro" /\ fpc = "returned") =>
        /\ Len(out) = 2 + Len(scripts)
        /\ SubSeq(out, 1, 2) = ShapiroHeaderLines
        /\ \A i \in 1..Len(scripts) :
              out[2 + i].kind = "shapiro_row" /\ out[2 + i].script = scripts[i][1]

\* a report of three labels that are not in alphabetical order has returned
C3_Witness ==
    /\ fn = "calculate_shapiro"
    /\ fpc = "returned"
    /\ Len(scripts) = 3
    /\ scripts[1][1] = "OOP_JS" /\ scripts[2][1] = "FP_JS"
    /\ Cardinality(Lines("shapiro_row")) = 3

\* the series of mapping d do not all have the same length
UnequalLengths(d) == \E i, j \in 1..Len(d) : Len(d[i][2]) # Len(d[j][2])

\* C4: calculate_friedman on a mapping whose series differ in length ends in
\* an error: once the test has been called the call has raised, and the
\* console holds no Friedman p-value line and no post-hoc matrix.
C4_UnequalLengthsRaise ==
    (fn = "calculate_friedman" /\ UnequalLengths(scripts)) =>
        /\ fpc \in {"friedman_test", "raised"}
        /\ Lines("friedman_row") = {}
        /\ Lines("frame") = {}
        /\ nemenyi_input = NoArray

\* three series, one shorter than the other two, and the call has raised
C4_Witness ==
    /\ fn = "calculate_friedman"
    /\ Len(scripts) = 3
    /\ Len(scripts[1][2]) = 3 /\ Len(scripts[2][2]) = 3 /\ Len(scripts[3][2]) = 2
    /\ friedman_input = values(scripts)
    /\ fpc = "raised"

\* the mapping holds two groups with the same series
TwoIdenticalGroups(d) == Len(d) = 2 /\ d[1][2] = d[2][2]

\* C5 as stated: calculate_friedman on two groups with identical series
\* produces a p-value of 1.0 and prints 'Ne' on the significance line.
C5_AsStated ==
    (fn = "calculate_friedman" /\ TwoIdenticalGroups(scripts) /\ fpc # "friedman_test") =>
        /\ pvalue = Float(1000)
        /\ \E i \in Lines("friedman_row") :
              out[i].pvalue = Float(1000) /\ out[i].verdict = "Ne"

\* C5 as amended: calculate_friedman on two groups with identical series ends
\* in the error of the Friedman test, which needs at least three groups,
\* before anything is printed: no p-value and no 'Ne' appear on the console.
C5_TwoGroupsRaise ==
    (fn = "calculate_friedman" /\ TwoIdenticalGroups(scripts) /\ fpc # "friedman_test") =>
        /\ fpc = "raised"
        /\ out = <<>>

\* the call on [1,2,3] and [1,2,3] has ended
C5_Witness ==
    /\ fn = "calculate_friedman"
    /\ TwoIdenticalGroups(scripts)
    /\ scripts[1][2] = <<1, 2, 3>>
    /\ friedman_input = <<<<1, 2, 3>>, <<1, 2, 3>>>>
    /\ fpc # "friedman_test"

\* column c of a trials-by-groups array
ColumnOf(a, c) == [r \in 1..a.shape[1] |-> a.cells[r][c]]

\* C10: when calculate_friedman returns, the legend numbers the labels 0, 1,
\* ... in the mapping's order, the series of the label numbered i is column i
\* of the array given to the Nemenyi test and sample i of the Friedman test,
\* and the Nemenyi frame was printed whatever the significance line says.
C10_LegendMatchesMatrix ==
    (fn = "calculate_friedman" /\ fpc = "returned") =>
        /\ Cardinality(Lines("legend")) = 1
        /\ Cardinality(Lines("frame")) = 1
        /\ Cardinality(Lines("friedman_row")) = 1
        /\ nemenyi_input.shape[2] = Len(scripts)
        /\ Len(friedman_input) = Len(scripts)
        /\ \A l \in Lines("legend") :
              /\ Len(out[l].entries) = Len(scripts)
              /\ \A i \in 1..Len(scripts) :
                    /\ out[l].entries[i] = <<i - 1, scripts[i][1]>>
                    /\ ColumnOf(nemenyi_input, i) = scripts[i][2]
                    /\ friedman_input[i] = scripts[i][2]
        /\ \A f \in Lines("frame") :
              out[f].columns = [i \in 1..Len(scripts) |-> i - 1]

\* a call whose significance line says 'Ne' has printed the legend and the
\* frame of three distinguishable series
C10_Witness ==
    /\ fn = "calculate_friedman"
    /\ fpc = "returned"
    /\ Len(scripts) = 3
    /\ scripts[1][1] = "OOP_JS"
    /\ scripts[1][2] = <<2, 3, 4>> /\ scripts[2][2] = <<1, 2, 3>>
    /\ \E i \in Lines("friedman_row") : out[i].verdict = "Ne"
    /\ Lines("frame") # {}

\* the identifier each label of stats.py:40-52 and :69-79 selects
IdentOf(label) ==
    CASE label = "FP_JS" -> FP_JS_js
      [] label = "FP_TS" -> FP_TS_js
      [] label = "OOP_JS" -> OOP_JS_js
      [] label = "OOP_TS" -> OOP_TS_js
      [] label = "OOP_STRING_JS" -> OOP_STRING_JS_js

\* series s holds the values of column col of exactly the rows of tab whose
\* script is ident, in table order
HoldsRowsOf(s, tab, ident, col) ==
    LET matching == {i \in 1..Len(tab.rows) : tab.rows[i].script = ident}
    IN  /\ Len(s) = Cardinality(matching)
        /\ \A j \in 1..Len(s) :
              \E i \in matching :
                 /\ Cardinality({h \in matching : h < i}) = j - 1
                 /\ s[j] = tab.rows[i][col]

\* collection c, once built, selects the labels given, each from its rows
BuiltFrom(c, labels, col) ==
    c # NoMapping =>
        /\ keys(c) = labels
        /\ \A k \in 1..Len(c) : HoldsRowsOf(c[k][2], df, IdentOf(c[k][1]), col)

\* C7: each series of the four collections holds exactly the values, in
\* table order, of the rows whose script equals the series' identifier, so a
\* row with any other identifier adds a value to no series; building the
\* collections prints nothing, and a table that has the three columns does
\* not make it fail.
C7_UnmatchedRowsExcluded ==
    /\ BuiltFrom(script_times, <<"FP_JS", "FP_TS", "OOP_JS", "OOP_TS">>, "time_taken")
    /\ BuiltFrom(script_memory_usages, <<"FP_JS", "FP_TS", "OOP_JS", "OOP_TS">>,
                 "memory_usage")
    /\ BuiltFrom(script_optimized_times, <<"FP_JS", "OOP_JS", "OOP_STRING_JS">>,
                 "time_taken")
    /\ BuiltFrom(script_optimized_memory_usages, <<"FP_JS", "OOP_JS", "OOP_STRING_JS">>,
                 "memory_usage")
    /\ stage = "initial_time_shapiro" /\ fpc = "idle" => out = <<>>
    /\ ~(stage = "failed" /\ fn = "none" /\ df.columns = AllColumns)

\* collections are built from a table in which a row of another identifier
\* stands between two rows of FP_JS.js
C7_Witness ==
    /\ script_memory_usages # NoMapping
    /\ Len(df.rows) = 4
    /\ df.rows[1].script = FP_JS_js
    /\ df.rows[2].script = OTHER_js
    /\ df.rows[3].script = FP_JS_js
    /\ script_times[1][2] = <<1, 3>>
    /\ script_memory_usages[1][2] = <<11 * MiB, 13 * MiB>>

\* the place of each stage in the run
C8_Rank(s) ==
    CASE s = "load" -> 0
      [] s = "extract_initial" -> 1
      [] s = "initial_time_shapiro" -> 2
      [] s = "initial_time_friedman" -> 3
      [] s = "initial_memory_shapiro" -> 4
      [] s = "initial_memory_friedman" -> 5
      [] s = "extract_optimized" -> 6
      [] s = "optimized_time_shapiro" -> 7
      [] s = "optimized_time_friedman" -> 8
      [] s = "optimized_memory_shapiro" -> 9
      [] s = "optimized_memory_friedman" -> 10
      [] s = "done" -> 11

\* the function and the collection of the call each stage makes
C8_CallOf(s) ==
    CASE s = "initial_time_shapiro" -> <<"calculate_shapiro", script_times>>
      [] s = "initial_time_friedman" -> <<"calculate_friedman", script_times>>
      [] s = "initial_memory_shapiro" -> <<"calculate_shapiro", script_memory_usages>>
      [] s = "initial_memory_friedman" -> <<"calculate_friedman", script_memory_usages>>
      [] s = "optimized_time_shapiro" -> <<"calculate_shapiro", script_optimized_times>>
      [] s = "optimized_time_friedman" -> <<"calculate_friedman", script_optimized_times>>
      [] s = "optimized_memory_shapiro" ->
            <<"calculate_shapiro", script_optimized_memory_usages>>
      [] s = "optimized_memory_friedman" ->
            <<"calculate_friedman", script_optimized_memory_usages>>

\* C8: the run goes through its stages in the fixed order, one at a time;
\* a stage that fails ends the run there: the next step takes the run to
\* "failed" without printing, and from "failed" nothing more happens, so no
\* later stage runs and the failed stage is not entered again.
C8_FailureEndsRun ==
    [][ /\ stage \in {"failed", "exit", "done"} => FALSE
        /\ stage' # stage =>
              \/ stage' = "failed"
              \/ stage' = "exit" /\ stage = "load"
              \/ C8_Rank(stage') = C8_Rank(stage) + 1
        /\ fpc = "raised" => (stage' = "failed" /\ out' = out)
        /\ (fpc = "idle" /\ fpc' # "idle") => <<fn', scripts'>> = C8_CallOf(stage)
        /\ fpc \notin {"idle", "returned", "raised"} => stage' = stage
      ]_vars

\* the run has failed in the Friedman report of the optimized times, after
\* the four reports of the initial collections were printed
C8_Witness ==
    /\ stage = "failed"
    /\ fn = "calculate_friedman"
    /\ scripts = script_optimized_times
    /\ script_optimized_times # NoMapping
    /\ Cardinality(Lines("frame")) = 2
    /\ Len(df.rows) = 4

\* the script identifiers of the table that the call does not exclude
C6_Kept ==
    {n \in {df.rows[i].script : i \in 1..Len(df.rows)} :
        ~\E e \in 1..Len(plot_args.excluded) : plot_args.excluded[e] = n}

\* box series i of figure f is the group named n, and label i is n without
\* its last three characters
C6_BoxIs(f, i, n) ==
    /\ HoldsRowsOf(f.data[i], df, n, plot_args.attr)
    /\ Len(n) >= 3
    /\ f.xticklabels[i] \o SubSeq(n, Len(n) - 2, Len(n)) = n

\* C6: the figure create_box_plots builds has one box series and one x-axis
\* label for every script identifier of the table that is not in excluded and
\* none for an identifier in excluded; label i is the name, less its last
\* three characters, of the group drawn as series i; and the groups stand in
\* the order of the grouping (ascending name).
C6_ExcludedGroupsOmitted ==
    vstage = "returned" =>
        LET f == figures[Len(figures)]
        IN  /\ Len(f.data) = Cardinality(C6_Kept)
            /\ Len(f.xticklabels) = Cardinality(C6_Kept)
            /\ \A i \in 1..Len(f.data) : \E n \in C6_Kept : C6_BoxIs(f, i, n)
            /\ \A n \in C6_Kept :
                  Cardinality({i \in 1..Len(f.data) : C6_BoxIs(f, i, n)}) = 1
            /\ \A i, j \in 1..Len(f.data) : \A n, m \in C6_Kept :
                  (i < j /\ C6_BoxIs(f, i, n) /\ C6_BoxIs(f, j, m)) => StrLess(n, m)

\* a figure of the time_taken of FP_JS.js and OOP_JS.js, built from a table
\* that is not in name order and holds an excluded OOP_TS.js
C6_Witness ==
    /\ vstage = "returned"
    /\ plot_args.excluded = <<FP_TS_js, OOP_TS_js>>
    /\ plot_args.attr = "time_taken"
    /\ Len(df.rows) = 4
    /\ df.rows[1].script = OOP_TS_js
    /\ df.rows[2].script = OOP_JS_js
    /\ df.rows[3].script = FP_JS_js
    /\ df.rows[4].script = OOP_JS_js
    /\ figures[1].data = <<<<3>>, <<2, 4>>>>
    /\ figures[1].xticklabels =
          << <<"F", "P", "_", "J", "S">>, <<"O", "O", "P", "_", "J", "S">> >>

====
